---- MODULE Spec2Model ----
(***************************************************************************)
(* Model of pycoin/tx/script/checksigops.py: the CHECKSIG, CHECKSIGVERIFY, *)
(* CHECKMULTISIG and CHECKMULTISIGVERIFY opcodes of the script VM.         *)
(*                                                                         *)
(* A stack item is a byte blob.  The model keeps of each blob what the     *)
(* opcodes read of it:                                                     *)
(*   key blob   len, fb   its length and first byte (fb = -1: no byte),    *)
(*              pt        the curve point sec_to_public_pair decodes it    *)
(*                        to without strict (0: EncodingError);            *)
(*   sig blob   empty     len(sig_blob) = 0,                               *)
(*              der       check_valid_signature accepts it,                *)
(*              last      its final (hash type) byte,                      *)
(*              dec       der.sigdecode_der decodes sig_blob[:-1],         *)
(*              lows      check_low_der_signature accepts the decoded pair,*)
(*              cands     the points the decoded pair verifies for under   *)
(*                        the digest of its hash type: what                *)
(*                        possible_public_pairs_for_signature returns, and *)
(*                        the points for which ecdsa.verify is true;       *)
(*   integer    v         the value pop_int reads;                         *)
(*   data       empty     whether the blob is b''.                         *)
(* The top of the stack is the head of the sequence.                       *)
(***************************************************************************)
EXTENDS Integers, Sequences, FiniteSets, TLC

VARIABLES
    flags,            \* vm.flags, fixed when the VM is built
    stack,            \* vm's operand stack, top first
    op_count,         \* vm.op_count
    pc,               \* "idle" (nothing pushed), "ready" (operands pushed), "done"
    err,              \* error code of the exception the opcode raised, or "none"
    op,               \* the opcode that ran, or "none"
    stack0,           \* the stack when the opcode was entered
    pushes,           \* number of vm.append calls the opcode made
    sig_blob_indices, \* what sig_blob_matches returned (<<>> when not called)
    sig_ok,           \* do_OP_CHECKMULTISIG's sig_ok: "unset", "true", "false"
    parsed,           \* number of parse_signature_blob calls made
    examined,         \* number of key blobs taken up for validation and decoding
    inner,            \* for the VERIFY opcodes: what the wrapped opcode did, [ran, err, pushed]
    call              \* a validator called on its own: [f, x, done, out], or NoCall

vars == <<flags, stack, op_count, pc, err, op, stack0, pushes,
          sig_blob_indices, sig_ok, parsed, examined, inner, call>>

-----------------------------------------------------------------------------
(* Bounds of the model *)

\* Largest key count of the matching inputs (distinct well-formed keys).
MaxN == 3
\* Largest key count of the inputs that mix malformed keys and signatures.
MaxMixed == 2

(* Program constants *)

\* "if key_count < 0 or key_count > 20"
MaxKeyCount == 20

VERIFY_STRICTENC == "STRICTENC"
VERIFY_DERSIG == "DERSIG"
VERIFY_LOW_S == "LOW_S"
VERIFY_NULLDUMMY == "NULLDUMMY"
VERIFY_NULLFAIL == "NULLFAIL"
VERIFY_WITNESS_PUBKEYTYPE == "WITNESS_PUBKEYTYPE"

AllFlags ==
    {VERIFY_STRICTENC, VERIFY_DERSIG, VERIFY_LOW_S, VERIFY_NULLDUMMY,
     VERIFY_NULLFAIL, VERIFY_WITNESS_PUBKEYTYPE}

\* Exceptions the opcodes catch and turn into a pushed false or a -1.
SoftErrors == {"ValueError", "UnexpectedDER", "EncodingError"}

\* Error codes a ScriptError carries.
ScriptErrors ==
    {"SIG_DER", "SIG_HIGH_S", "SIG_HASHTYPE", "PUBKEYTYPE", "WITNESS_PUBKEYTYPE",
     "NULLFAIL", "SIG_NULLDUMMY", "PUBKEY_COUNT", "SIG_COUNT", "VERIFY"}

\* An exception that is no ScriptError and that no handler of the file catches
\* (byte2int of an empty blob).
Uncaught == "UNCAUGHT"

VM_TRUE == [t |-> "bool", v |-> TRUE]
VM_FALSE == [t |-> "bool", v |-> FALSE]

-----------------------------------------------------------------------------
(* Stack items *)

IntItem(n) == [t |-> "int", v |-> n]
DataItem(e) == [t |-> "data", empty |-> e]
KeyBlob(l, b, p) == [t |-> "key", len |-> l, fb |-> b, pt |-> p]
SigBlob(e, d, h, c, l, ps) ==
    [t |-> "sig", empty |-> e, der |-> d, last |-> h, dec |-> c, lows |-> l,
     cands |-> ps]

Compressed(p) == KeyBlob(33, 2, p)
Uncompressed(p) == KeyBlob(65, 4, p)
\* A hybrid key (first byte 6): decodable, but no legal encoding.
Hybrid(p) == KeyBlob(65, 6, p)
EmptyKey == KeyBlob(0, -1, 0)
\* 33 bytes with first byte 2 whose x is the abscissa of no curve point.
OffCurveKey == KeyBlob(33, 2, 0)

EmptySig == SigBlob(TRUE, FALSE, 0, FALSE, FALSE, {})
\* Non-empty bytes that are no DER at all.
Garbage == SigBlob(FALSE, FALSE, 1, FALSE, FALSE, {})
\* A strict-DER, low-S, SIGHASH_ALL signature made by the key of point p.
Genuine(p) == SigBlob(FALSE, TRUE, 1, TRUE, TRUE, {p})
\* The same with SIGHASH_ALL | SIGHASH_ANYONECANPAY.
GenuineACP(p) == SigBlob(FALSE, TRUE, 129, TRUE, TRUE, {p})
\* Decodable by the lenient decoder only.
LaxSig(p) == SigBlob(FALSE, FALSE, 1, TRUE, TRUE, {p})
\* Strict DER with an undefined hash type byte.
BadHashSig(p) == SigBlob(FALSE, TRUE, 4, TRUE, TRUE, {p})
\* Strict DER with a high s.
HighSSig(p) == SigBlob(FALSE, TRUE, 1, TRUE, FALSE, {p})
\* Strict DER that verifies for no key.
WrongSig == SigBlob(FALSE, TRUE, 1, TRUE, TRUE, {})
\* Strict DER whose recovery yields two candidate points.
TwoCandSig(p, q) == SigBlob(FALSE, TRUE, 1, TRUE, TRUE, {p, q})

-----------------------------------------------------------------------------
(* The validators *)

\* The range test on the final byte as it is.
check_defined_hashtype_signature_no_mask(sig) ==
    ~(sig.last < 1 \/ sig.last > 3)

\* indexbytes(sig, -1) & (~SIGHASH_ANYONECANPAY), then the range test.
check_defined_hashtype_signature(sig) ==
    LET hash_type == IF sig.last >= 128 THEN sig.last - 128 ELSE sig.last
    IN  ~(hash_type < 1 \/ hash_type > 3)

\* The first byte test without the length tests that follow it.
check_public_key_encoding_any_length(blob) ==
    /\ blob.len >= 33
    /\ blob.fb \in {2, 3, 4}

\* TRUE when the blob is accepted, FALSE when PUBKEYTYPE is raised.
check_public_key_encoding(blob) ==
    /\ blob.len >= 33
    /\ \/ blob.fb = 4 /\ blob.len = 65
       \/ blob.fb \in {2, 3} /\ blob.len = 33

\* The witness test both opcodes apply to a key blob: "ok", the error code
\* raised, or Uncaught when byte2int is applied to an empty blob.
witness_pubkeytype(blob) ==
    IF blob.len = 0 THEN Uncaught
    ELSE IF blob.fb \notin {2, 3} \/ blob.len # 33 THEN "WITNESS_PUBKEYTYPE"
    ELSE "ok"

\* The point, or 0 for EncodingError.  strict refuses what is neither a
\* compressed nor an uncompressed first byte.
sec_to_public_pair(blob, strict) ==
    IF strict /\ blob.fb \notin {2, 3, 4} THEN 0 ELSE blob.pt

parse_signature_blob_dersig_only(sig_blob, fl) ==
    IF sig_blob.empty THEN "ValueError"
    ELSE IF VERIFY_DERSIG \in fl /\ ~sig_blob.der THEN "SIG_DER"
    ELSE IF VERIFY_STRICTENC \in fl /\ ~check_defined_hashtype_signature(sig_blob)
        THEN "SIG_HASHTYPE"
    ELSE IF ~sig_blob.dec THEN "UnexpectedDER"
    ELSE IF VERIFY_LOW_S \in fl /\ ~sig_blob.lows THEN "SIG_HIGH_S"
    ELSE "ok"

\* One run of parse_signature_blob with every check unconditional.
parse_signature_blob_run_all_checks(sig_blob, fl) ==
    LET c1 == <<"check_valid_signature">>
        c2 == c1 \o <<"check_defined_hashtype_signature">>
        c3 == c2 \o <<"sigdecode_der">>
        c4 == c3 \o <<"check_low_der_signature">>
    IN  IF sig_blob.empty THEN [result |-> "ValueError", calls |-> <<>>]
        ELSE IF ~sig_blob.der THEN [result |-> "SIG_DER", calls |-> c1]
        ELSE IF ~check_defined_hashtype_signature(sig_blob)
            THEN [result |-> "SIG_HASHTYPE", calls |-> c2]
        ELSE IF ~sig_blob.dec THEN [result |-> "UnexpectedDER", calls |-> c3]
        ELSE IF ~sig_blob.lows THEN [result |-> "SIG_HIGH_S", calls |-> c4]
        ELSE [result |-> "ok", calls |-> c4]

\* One run of parse_signature_blob: the calls it makes, in order, and its
\* result: "ok" when (sig_pair, signature_type) is returned, else the
\* exception raised.
parse_signature_blob_run(sig_blob, fl) ==
    LET der_on == fl \cap {VERIFY_DERSIG, VERIFY_LOW_S, VERIFY_STRICTENC} # {}
        c1 == IF der_on THEN <<"check_valid_signature">> ELSE <<>>
        c2 == c1 \o (IF VERIFY_STRICTENC \in fl
                         THEN <<"check_defined_hashtype_signature">> ELSE <<>>)
        c3 == c2 \o <<"sigdecode_der">>
        c4 == c3 \o (IF VERIFY_LOW_S \in fl
                         THEN <<"check_low_der_signature">> ELSE <<>>)
    IN  IF sig_blob.empty THEN [result |-> "ValueError", calls |-> <<>>]
        ELSE IF der_on /\ ~sig_blob.der THEN [result |-> "SIG_DER", calls |-> c1]
        ELSE IF VERIFY_STRICTENC \in fl /\ ~check_defined_hashtype_signature(sig_blob)
            THEN [result |-> "SIG_HASHTYPE", calls |-> c2]
        ELSE IF ~sig_blob.dec THEN [result |-> "UnexpectedDER", calls |-> c3]
        ELSE IF VERIFY_LOW_S \in fl /\ ~sig_blob.lows
            THEN [result |-> "SIG_HIGH_S", calls |-> c4]
        ELSE [result |-> "ok", calls |-> c4]

\* "ok" when (sig_pair, signature_type) is returned, else the exception raised.
parse_signature_blob(sig_blob, fl) == parse_signature_blob_run(sig_blob, fl).result

-----------------------------------------------------------------------------
(* The VM as the opcodes see it: a record m of flags, stack, op_count and the
   observations of one opcode run. *)

Enter(fl, stk, oc) ==
    [flags |-> fl, stack |-> stk, op_count |-> oc, err |-> "none", pushes |-> 0,
     indices |-> <<>>, sig_ok |-> "unset", parsed |-> 0, examined |-> 0]

\* raise ScriptError(..., code)
Raise(m, code) == [m EXCEPT !.err = code]

\* vm.append(item)
vm_append(m, item) == [m EXCEPT !.stack = <<item>> \o @, !.pushes = @ + 1]

\* The first n items popped off.
Drop(stk, n) == SubSeq(stk, n + 1, Len(stk))

-----------------------------------------------------------------------------
(* CHECKSIG *)

soft_fail_no_push(m) == m

\* The handler of the caught exceptions: vm.append(vm.VM_FALSE); return
soft_fail(m) == vm_append(m, VM_FALSE)

do_OP_CHECKSIG(m) ==
    LET fl == m.flags
        pair_blob == m.stack[1]
        sig_blob == m.stack[2]
        verify_strict == VERIFY_STRICTENC \in fl
        witness == VERIFY_WITNESS_PUBKEYTYPE \in fl
        m1 == [m EXCEPT !.stack = Drop(@, 2)]
        m2 == [m1 EXCEPT !.examined = 1]
        m3 == [m2 EXCEPT !.parsed = 1]
        sp == parse_signature_blob(sig_blob, fl)
        public_pair == sec_to_public_pair(pair_blob, verify_strict)
    IN  IF verify_strict /\ ~check_public_key_encoding(pair_blob)
            THEN Raise(m2, "PUBKEYTYPE")
        ELSE IF witness /\ witness_pubkeytype(pair_blob) # "ok"
            THEN Raise(m2, witness_pubkeytype(pair_blob))
        ELSE IF sp \in SoftErrors THEN soft_fail(m3)
        ELSE IF sp # "ok" THEN Raise(m3, sp)
        ELSE IF public_pair = 0 THEN soft_fail(m3)
        ELSE IF public_pair \in sig_blob.cands THEN vm_append(m3, VM_TRUE)
        ELSE IF VERIFY_NULLFAIL \in fl /\ ~sig_blob.empty
            THEN Raise(m3, "NULLFAIL")
        ELSE vm_append(m3, VM_FALSE)

-----------------------------------------------------------------------------
(* CHECKMULTISIG *)

Range(f) == {f[i] : i \in DOMAIN f}

RECURSIVE find_public_pair_short(_, _, _, _, _, _)
find_public_pair_short(public_pair_blobs, ppp, signature_count, strict_encoding, verify_witness_pubkeytype, ppb_idx) ==
    IF Len(public_pair_blobs) > signature_count + 1 THEN
        LET public_pair_blob == Head(public_pair_blobs)
            idx == ppb_idx + 1
            public_pair == sec_to_public_pair(public_pair_blob, strict_encoding)
            wit == witness_pubkeytype(public_pair_blob)
        IN  IF strict_encoding /\ ~check_public_key_encoding(public_pair_blob)
                THEN [err |-> "PUBKEYTYPE", idx |-> idx, seen |-> 1]
            ELSE IF verify_witness_pubkeytype /\ wit # "ok"
                THEN [err |-> wit, idx |-> idx, seen |-> 1]
            ELSE IF public_pair # 0 /\ public_pair \in ppp
                THEN [err |-> "none", idx |-> idx, seen |-> 1]
            ELSE LET r == find_public_pair_short(
                              Tail(public_pair_blobs), ppp, signature_count,
                              strict_encoding, verify_witness_pubkeytype, idx)
                 IN  [r EXCEPT !.seen = @ + 1]
    ELSE [err |-> "none", idx |-> -1, seen |-> 0]

\* find_public_pair returning ppb_idx as it was before "ppb_idx += 1".
RECURSIVE find_public_pair_stale(_, _, _, _, _, _)
find_public_pair_stale(public_pair_blobs, ppp, signature_count, strict_encoding, verify_witness_pubkeytype, ppb_idx) ==
    IF Len(public_pair_blobs) > signature_count THEN
        LET public_pair_blob == Head(public_pair_blobs)
            idx == ppb_idx + 1
            public_pair == sec_to_public_pair(public_pair_blob, strict_encoding)
            wit == witness_pubkeytype(public_pair_blob)
        IN  IF strict_encoding /\ ~check_public_key_encoding(public_pair_blob)
                THEN [err |-> "PUBKEYTYPE", idx |-> idx, seen |-> 1]
            ELSE IF verify_witness_pubkeytype /\ wit # "ok"
                THEN [err |-> wit, idx |-> idx, seen |-> 1]
            ELSE IF public_pair # 0 /\ public_pair \in ppp
                THEN [err |-> "none", idx |-> ppb_idx, seen |-> 1]
            ELSE LET r == find_public_pair_stale(
                              Tail(public_pair_blobs), ppp, signature_count,
                              strict_encoding, verify_witness_pubkeytype, idx)
                 IN  [r EXCEPT !.seen = @ + 1]
    ELSE [err |-> "none", idx |-> -1, seen |-> 0]

\* [err, idx, seen]: the exception raised or "none", the value returned (the
\* running ppb_idx on a raise) and the number of key blobs taken off the list.
\* public_pair is None (here 0) after an EncodingError, and None is in no ppp.
RECURSIVE find_public_pair(_, _, _, _, _, _)
find_public_pair(public_pair_blobs, ppp, signature_count, strict_encoding, verify_witness_pubkeytype, ppb_idx) ==
    IF Len(public_pair_blobs) > signature_count THEN
        LET public_pair_blob == Head(public_pair_blobs)
            idx == ppb_idx + 1
            public_pair == sec_to_public_pair(public_pair_blob, strict_encoding)
            wit == witness_pubkeytype(public_pair_blob)
        IN  IF strict_encoding /\ ~check_public_key_encoding(public_pair_blob)
                THEN [err |-> "PUBKEYTYPE", idx |-> idx, seen |-> 1]
            ELSE IF verify_witness_pubkeytype /\ wit # "ok"
                THEN [err |-> wit, idx |-> idx, seen |-> 1]
            ELSE IF public_pair # 0 /\ public_pair \in ppp
                THEN [err |-> "none", idx |-> idx, seen |-> 1]
            ELSE LET r == find_public_pair(
                              Tail(public_pair_blobs), ppp, signature_count,
                              strict_encoding, verify_witness_pubkeytype, idx)
                 IN  [r EXCEPT !.seen = @ + 1]
    ELSE [err |-> "none", idx |-> -1, seen |-> 0]

\* The loop without "if -1 in sig_blob_indices: break".
RECURSIVE sig_blob_loop_no_break(_, _, _, _)
sig_blob_loop_no_break(sig_blobs, public_pair_blobs, fl, a) ==
    IF ~(sig_blobs # <<>> /\ Len(sig_blobs) <= Len(public_pair_blobs)) THEN a
    ELSE
        LET sig_blob == Head(sig_blobs)
            rest == Tail(sig_blobs)
            sp == parse_signature_blob(sig_blob, fl)
            a1 == [a EXCEPT !.parsed = @ + 1]
            f == find_public_pair(
                     public_pair_blobs, sig_blob.cands, Len(rest),
                     VERIFY_STRICTENC \in fl, VERIFY_WITNESS_PUBKEYTYPE \in fl,
                     a.ppb_idx)
        IN  IF sp \in {"UnexpectedDER", "ValueError"} THEN
                sig_blob_loop_no_break(rest, public_pair_blobs, fl,
                              [a1 EXCEPT !.indices = Append(@, -1)])
            ELSE IF sp # "ok" THEN [a1 EXCEPT !.err = sp]
            ELSE IF f.err # "none" THEN
                [a1 EXCEPT !.err = f.err, !.examined = @ + f.seen]
            ELSE
                sig_blob_loop_no_break(rest, public_pair_blobs, fl,
                              [a1 EXCEPT !.ppb_idx = f.idx,
                                         !.indices = Append(@, f.idx),
                                         !.examined = @ + f.seen])

\* The while loop of sig_blob_matches.  a holds its locals: sig_blob_indices
\* (indices), ppb_idx, and the exception that left the loop (err).  The list
\* handed to find_public_pair is public_pair_blobs itself on every round: the
\* callee shortens its own parameter only.  sig_cache memoizes the digest per
\* hash type; the digest is folded into cands.
RECURSIVE sig_blob_loop(_, _, _, _)
sig_blob_loop(sig_blobs, public_pair_blobs, fl, a) ==
    IF ~(sig_blobs # <<>> /\ Len(sig_blobs) <= Len(public_pair_blobs)) THEN a
    ELSE IF -1 \in Range(a.indices) THEN a
    ELSE
        LET sig_blob == Head(sig_blobs)
            rest == Tail(sig_blobs)
            sp == parse_signature_blob(sig_blob, fl)
            a1 == [a EXCEPT !.parsed = @ + 1]
            f == find_public_pair(
                     public_pair_blobs, sig_blob.cands, Len(rest),
                     VERIFY_STRICTENC \in fl, VERIFY_WITNESS_PUBKEYTYPE \in fl,
                     a.ppb_idx)
        IN  IF sp \in {"UnexpectedDER", "ValueError"} THEN
                sig_blob_loop(rest, public_pair_blobs, fl,
                              [a1 EXCEPT !.indices = Append(@, -1)])
            ELSE IF sp # "ok" THEN [a1 EXCEPT !.err = sp]
            ELSE IF f.err # "none" THEN
                [a1 EXCEPT !.err = f.err, !.examined = @ + f.seen]
            ELSE
                sig_blob_loop(rest, public_pair_blobs, fl,
                              [a1 EXCEPT !.ppb_idx = f.idx,
                                         !.indices = Append(@, f.idx),
                                         !.examined = @ + f.seen])

sig_blob_matches(sig_blobs, public_pair_blobs, fl) ==
    sig_blob_loop(sig_blobs, public_pair_blobs, fl,
                  [err |-> "none", indices |-> <<>>, ppb_idx |-> -1,
                   parsed |-> 0, examined |-> 0])

key_count_below_max(key_count) == ~(key_count < 0 \/ key_count >= MaxKeyCount)

\* The negation of "key_count < 0 or key_count > 20".
key_count_in_range(key_count) == ~(key_count < 0 \/ key_count > MaxKeyCount)

\* The for/else over sig_blob_indices: TRUE when the loop ends without break.
strictly_increasing(sig_blob_indices_) ==
    \A i \in 1..(Len(sig_blob_indices_) - 1) :
        ~(sig_blob_indices_[i] >= sig_blob_indices_[i + 1])

first_non_empty(sig_blobs) == sig_blobs # <<>> /\ ~sig_blobs[1].empty

\* any(len(sig_blob) > 0 for sig_blob in sig_blobs)
any_non_empty(sig_blobs) == \E i \in DOMAIN sig_blobs : ~sig_blobs[i].empty

count_ops_assign(n, key_count) == key_count

\* vm.op_count += key_count
count_ops(n, key_count) == n + key_count

do_OP_CHECKMULTISIG(m) ==
    LET fl == m.flags
        key_count == m.stack[1].v
        m1 == [m EXCEPT !.stack = Drop(@, 1),
                        !.op_count = count_ops(@, key_count)]
    IN  IF ~key_count_in_range(key_count) THEN Raise(m1, "PUBKEY_COUNT")
        ELSE
        LET public_pair_blobs == SubSeq(m1.stack, 1, key_count)
            m2 == [m1 EXCEPT !.stack = Drop(@, key_count)]
            signature_count == m2.stack[1].v
            m3 == [m2 EXCEPT !.stack = Drop(@, 1)]
        IN  IF signature_count < 0 \/ signature_count > key_count
                THEN Raise(m3, "SIG_COUNT")
            ELSE
            LET sig_blobs == SubSeq(m3.stack, 1, signature_count)
                m4 == [m3 EXCEPT !.stack = Drop(@, signature_count)]
                hack_byte == m4.stack[1]
                m5 == [m4 EXCEPT !.stack = Drop(@, 1)]
            IN  IF VERIFY_NULLDUMMY \in fl /\ ~hack_byte.empty
                    THEN Raise(m5, "SIG_NULLDUMMY")
                ELSE
                LET r == sig_blob_matches(sig_blobs, public_pair_blobs, fl)
                    m6 == [m5 EXCEPT !.parsed = r.parsed,
                                     !.examined = r.examined]
                    ok == /\ -1 \notin Range(r.indices)
                          /\ Len(r.indices) = Len(sig_blobs)
                          /\ strictly_increasing(r.indices)
                    m7 == [m6 EXCEPT !.indices = r.indices,
                                     !.sig_ok = IF ok THEN "true" ELSE "false"]
                IN  IF r.err # "none" THEN Raise(m6, r.err)
                    ELSE IF ~ok /\ VERIFY_NULLFAIL \in fl /\ any_non_empty(sig_blobs)
                        THEN Raise(m7, "NULLFAIL")
                    ELSE vm_append(m7, IF ok THEN VM_TRUE ELSE VM_FALSE)

-----------------------------------------------------------------------------
(* The VERIFY opcodes *)

verify_keeps_result(m) ==
    IF m.err # "none" THEN m
    ELSE IF ~m.stack[1].v THEN Raise(m, "VERIFY")
    ELSE m

\* What follows the wrapped opcode: v = vm.bool_from_script_bytes(vm.pop());
\* if not v: raise VERIFY.  An exception of the wrapped opcode passes through.
verify_result(m) ==
    IF m.err # "none" THEN m
    ELSE LET v == m.stack[1].v
             m1 == [m EXCEPT !.stack = Drop(@, 1)]
         IN  IF ~v THEN Raise(m1, "VERIFY") ELSE m1

do_OP_CHECKMULTISIGVERIFY(m) == verify_result(do_OP_CHECKMULTISIG(m))

do_OP_CHECKSIGVERIFY(m) == verify_result(do_OP_CHECKSIG(m))

-----------------------------------------------------------------------------
(* Operands a script pushes before the opcode *)

\* What lies on the stack below the operands.
Base == <<DataItem(FALSE)>>

\* All sequences over S of length at most n.
SeqsUpTo(S, n) == UNION {[1..k -> S] : k \in 0..n}

\* The operands of CHECKMULTISIG, in pop order.
MultisigOperands(key_count, keys, signature_count, sigs, dummy) ==
    <<IntItem(key_count)>> \o keys \o <<IntItem(signature_count)>> \o sigs
        \o <<dummy>>

\* n distinct well-formed keys: position i (from 0) holds the key of point i + 1.
DistinctKeys(n) == [i \in 1..n |-> Compressed(i)]

\* Signatures offered against DistinctKeys(n): one by each listed key, one by
\* a key that is not listed, and the empty blob.
MatchSigs(n) == {Genuine(p) : p \in 1..(n + 1)} \cup {EmptySig}

SingleKeys ==
    {Compressed(1), Compressed(2), Uncompressed(1), Hybrid(1), EmptyKey,
     OffCurveKey}

SingleSigs ==
    {EmptySig, Garbage, Genuine(1), GenuineACP(1), LaxSig(1), BadHashSig(1),
     HighSSig(1), WrongSig}

MixedKeys == {Compressed(1), Uncompressed(2), EmptyKey}

MixedSigs == {EmptySig, Garbage, Genuine(1), BadHashSig(2), HighSSig(1)}

OneKeySigs == SingleSigs \cup {Genuine(2), TwoCandSig(1, 2)}

\* Counts outside their ranges, and the counts at the ends of the ranges.
OutOfRange(hi) == {-1, hi + 1}

-----------------------------------------------------------------------------
(* Actions *)

Push(items) ==
    /\ pc = "idle"
    /\ pc' = "ready"
    /\ stack' = items \o stack
    /\ UNCHANGED <<flags, op_count, err, op, stack0, pushes, sig_blob_indices,
                   sig_ok, parsed, examined, inner, call>>

\* A signature blob, then a key blob.
PushCheckSigOperands ==
    /\ pc = "idle"
    /\ \E key \in SingleKeys, sig \in SingleSigs : Push(<<key, sig>>)

\* Distinct well-formed keys and signatures by listed or unlisted keys.
PushMatchingOperands ==
    /\ pc = "idle"
    /\ \E n \in 0..MaxN :
           \E sigs \in SeqsUpTo(MatchSigs(n), n) :
               Push(MultisigOperands(n, DistinctKeys(n), Len(sigs), sigs,
                                     DataItem(TRUE)))

\* Any keys, any signatures, any dummy.
PushMixedOperands ==
    /\ pc = "idle"
    /\ \E n \in 0..MaxMixed :
           \E keys \in [1..n -> MixedKeys], sigs \in SeqsUpTo(MixedSigs, n),
              e \in BOOLEAN :
               Push(MultisigOperands(n, keys, Len(sigs), sigs, DataItem(e)))

\* One key of any shape against at most one signature of any shape.
PushOneKeyOperands ==
    /\ pc = "idle"
    /\ \E key \in SingleKeys, sigs \in SeqsUpTo(OneKeySigs, 1), e \in BOOLEAN :
           Push(MultisigOperands(1, <<key>>, Len(sigs), sigs, DataItem(e)))

\* The largest legal key count.
PushMaxKeysOperands ==
    /\ pc = "idle"
    /\ \E sigs \in {<<>>, <<Genuine(MaxKeyCount)>>, <<Genuine(1), Genuine(MaxKeyCount)>>,
                 <<Genuine(2), Genuine(1)>>} :
        Push(MultisigOperands(MaxKeyCount, DistinctKeys(MaxKeyCount), Len(sigs),
                              sigs, DataItem(TRUE)))

\* A key count or a signature count out of range; the blobs below a bad count
\* are malformed, and the dummy is any.
PushBadCountOperands ==
    /\ pc = "idle"
    /\ \/ \E kc \in OutOfRange(MaxKeyCount), e \in BOOLEAN :
           Push(<<IntItem(kc), EmptyKey, IntItem(1), Garbage, DataItem(e)>>)
       \/ \E n \in 0..1, e \in BOOLEAN :
              \E sc \in OutOfRange(n) :
                  Push(<<IntItem(n)>> \o [i \in 1..n |-> EmptyKey]
                           \o <<IntItem(sc), Garbage, Garbage, DataItem(e)>>)

NoInner == [ran |-> FALSE, err |-> "none", pushed |-> "none"]

\* What the VERIFY opcode saw of the opcode it wraps.
InnerOf(r) ==
    [ran |-> TRUE, err |-> r.err,
     pushed |-> IF r.err # "none" THEN "none"
                ELSE IF r.stack[1].v THEN "true" ELSE "false"]

\* The opcode name ran and left m.
Finish(name, m, w) ==
    LET r == m IN
    /\ pc' = "done"
    /\ op' = name
    /\ stack0' = stack
    /\ stack' = r.stack
    /\ op_count' = r.op_count
    /\ err' = r.err
    /\ pushes' = r.pushes
    /\ sig_blob_indices' = r.indices
    /\ sig_ok' = r.sig_ok
    /\ parsed' = r.parsed
    /\ examined' = r.examined
    /\ inner' = w
    /\ UNCHANGED <<flags, call>>

CheckSigReady == pc = "ready" /\ stack[1].t = "key"
CheckMultisigReady == pc = "ready" /\ stack[1].t = "int"

OP_CHECKSIG ==
    /\ CheckSigReady
    /\ Finish("CHECKSIG", do_OP_CHECKSIG(Enter(flags, stack, op_count)), NoInner)

OP_CHECKSIGVERIFY ==
    /\ CheckSigReady
    /\ Finish("CHECKSIGVERIFY",
              do_OP_CHECKSIGVERIFY(Enter(flags, stack, op_count)),
              InnerOf(do_OP_CHECKSIG(Enter(flags, stack, op_count))))

OP_CHECKMULTISIG ==
    /\ CheckMultisigReady
    /\ Finish("CHECKMULTISIG",
              do_OP_CHECKMULTISIG(Enter(flags, stack, op_count)), NoInner)

OP_CHECKMULTISIGVERIFY ==
    /\ CheckMultisigReady
    /\ Finish("CHECKMULTISIGVERIFY",
              do_OP_CHECKMULTISIGVERIFY(Enter(flags, stack, op_count)),
              InnerOf(do_OP_CHECKMULTISIG(Enter(flags, stack, op_count))))

\* No validator is called on its own while an opcode runs.
NoCall == [f |-> "none"]

Init ==
    /\ flags \in SUBSET AllFlags
    /\ stack = Base
    /\ op_count \in {0, 1}
    /\ pc = "idle"
    /\ err = "none"
    /\ op = "none"
    /\ stack0 = <<>>
    /\ pushes = 0
    /\ sig_blob_indices = <<>>
    /\ sig_ok = "unset"
    /\ parsed = 0
    /\ examined = 0
    /\ inner = NoInner
    /\ call = NoCall

Next ==
    \/ PushCheckSigOperands
    \/ PushMatchingOperands
    \/ PushMixedOperands
    \/ PushOneKeyOperands
    \/ PushMaxKeysOperands
    \/ PushBadCountOperands
    \/ OP_CHECKSIG
    \/ OP_CHECKSIGVERIFY
    \/ OP_CHECKMULTISIG
    \/ OP_CHECKMULTISIGVERIFY

Spec == Init /\ [][Next]_vars

-----------------------------------------------------------------------------
(* The validators on the bytes themselves.  A signature is here the list of
   its bytes, sig = [s for s in iterbytes(sig)], indexed from 0 by At; a
   read past the end is Python's IndexError.  Each pass returns how it ended
   (err: "ok", "SIG_DER" or "IndexError") and the indices it read. *)

\* "if ls < 9 or ls > 73"
MinSigLen == 9
MaxSigLen == 73

\* secp256k1's p and n are 256 bits wide.  The model keeps the curve of the
\* same equation, y^2 = x^3 + 7, over the field of 43 elements, whose group
\* has 31 points: n < p, as for secp256k1.
\* ecdsa.generator_secp256k1.curve().p(): the prime of the field.
CurveP == 43
\* The order of the generator.
CurveN == 31

At(sig, i) == sig[i + 1]
HighBit(b) == b >= 128
Out(e, rd) == [err |-> e, reads |-> rd]

\* One "if <test on sig[i]>: raise ScriptError(..., errno.SIG_DER)".
Check(sig, rd, i, bad, rest) ==
    IF i >= Len(sig) THEN Out("IndexError", rd \cup {i})
    ELSE IF bad THEN Out("SIG_DER", rd \cup {i})
    ELSE rest

\* The first pass without its last test.
_check_valid_signature_1_unguarded(sig) ==
    LET ls == Len(sig)
    IN  IF ls < MinSigLen \/ ls > MaxSigLen THEN Out("SIG_DER", {})
        ELSE Check(sig, {}, 0, At(sig, 0) # 48,
             Check(sig, {0}, 1, At(sig, 1) # ls - 3,
             Check(sig, {0, 1}, 3, FALSE,
             Out("ok", {0, 1, 3}))))

_check_valid_signature_1(sig) ==
    LET ls == Len(sig)
    IN  IF ls < MinSigLen \/ ls > MaxSigLen THEN Out("SIG_DER", {})
        ELSE Check(sig, {}, 0, At(sig, 0) # 48,
             Check(sig, {0}, 1, At(sig, 1) # ls - 3,
             Check(sig, {0, 1}, 3, 5 + At(sig, 3) >= ls,
             Out("ok", {0, 1, 3}))))

\* "r_len > 1 and sig[4] == 0 and not (sig[5] & 0x80)" and its twin for S:
\* the byte at i + 1 is read only when n > 1 and the byte at i is 0.
LeadingZero(sig, rd, n, i, rest) ==
    IF n > 1
    THEN Check(sig, rd, i, FALSE,
         IF At(sig, i) = 0
         THEN Check(sig, rd \cup {i}, i + 1, ~HighBit(At(sig, i + 1)), rest)
         ELSE rest)
    ELSE rest

_check_valid_signature_2(sig) ==
    LET ls == Len(sig)
    IN  Check(sig, {}, 3, FALSE,
        LET r_len == At(sig, 3)
            r1 == {3, 5 + r_len}
            r2 == r1 \cup {2}
            r3 == r2 \cup {4}
            r4 == r3 \cup (IF r_len > 1 /\ At(sig, 4) = 0 THEN {5} ELSE {})
            r5 == r4 \cup {r_len + 4}
            r6 == r5 \cup {r_len + 6}
        IN  Check(sig, {3}, 5 + r_len, r_len + At(sig, 5 + r_len) + 7 # ls,
            LET s_len == At(sig, 5 + r_len)
            IN  Check(sig, r1, 2, At(sig, 2) # 2,
                IF r_len = 0 THEN Out("SIG_DER", r2)
                ELSE
                Check(sig, r2, 4, HighBit(At(sig, 4)),
                LeadingZero(sig, r3, r_len, 4,
                Check(sig, r4, r_len + 4, At(sig, r_len + 4) # 2,
                IF s_len = 0 THEN Out("SIG_DER", r5)
                ELSE
                Check(sig, r5, r_len + 6, HighBit(At(sig, r_len + 6)),
                LeadingZero(sig, r6, s_len, r_len + 6,
                Out("ok", r6 \cup (IF s_len > 1 /\ At(sig, r_len + 6) = 0
                                      THEN {r_len + 7} ELSE {}))))))))))

\* The second pass alone.
check_valid_signature_pass_2_only(sig) == _check_valid_signature_2(sig)

check_valid_signature(sig) ==
    LET p1 == _check_valid_signature_1(sig)
    IN  IF p1.err # "ok" THEN p1
        ELSE LET p2 == _check_valid_signature_2(sig)
             IN  Out(p2.err, p1.reads \cup p2.reads)

\* TRUE when the pair is accepted, FALSE when SIG_HIGH_S is raised.
check_low_der_signature(sig_pair) ==
    LET s == sig_pair[2]
        hi_s == CurveP - s
    IN  ~(hi_s < s)

(* Inputs of the validators *)

\* Longest R and S of the signatures built byte by byte.
MaxIntLen == 2

ContentBytes == {0, 1, 128}
PatchBytes == {0, 1, 2, 3, 5, 48, 128, 255}

IntBodies == UNION {[1..n -> ContentBytes] : n \in 1..MaxIntLen}

\* 0x30 len 0x02 r_len R 0x02 s_len S hashtype
Encode(R, S, h) ==
    <<48, Len(R) + Len(S) + 4, 2, Len(R)>> \o R \o <<2, Len(S)>> \o S \o <<h>>

\* n bytes that encode a positive integer with no leading zero.
Filler(n) == [i \in 1..n |-> IF i = 1 THEN 1 ELSE 0]

ShortSigs == {Encode(R, S, 1) : R \in IntBodies, S \in IntBodies}

\* Byte i (from 1) of a frame overwritten.
Patched(sig, i, b) == [sig EXCEPT ![i] = b]

\* Frames of MaxSigLen - 1, MaxSigLen and MaxSigLen + 1 bytes.
LongSigs ==
    {Encode(Filler(r), Filler(MaxSigLen - 7 - r + d), 1) :
        r \in {1, 33}, d \in {-1, 0, 1}}

\* What is left of a frame cut below MinSigLen bytes.
CutSigs == {SubSeq(Encode(<<1>>, <<1>>, 1), 1, n) : n \in 0..(MinSigLen - 1)}

DerInputs == ShortSigs \cup LongSigs \cup CutSigs

LowSInputs == {<<r, s>> : r \in {1, CurveN - 1}, s \in 0..CurveP}

HashtypeInputs == {SigBlob(FALSE, TRUE, b, TRUE, TRUE, {}) : b \in 0..255}

KeyInputs ==
    {EmptyKey} \cup
    {KeyBlob(l, b, 0) : l \in {1, 32, 33, 34, 64, 65, 66}, b \in 0..255}

\* A strict-DER blob is one the decoder decodes.
ParseInputs ==
    {EmptySig} \cup
    {sig \in {SigBlob(FALSE, d, h, c, l, {}) :
                 d \in BOOLEAN, h \in {0, 1, 4, 129}, c \in BOOLEAN, l \in BOOLEAN} :
        sig.der => sig.dec}

(* One validator call: the arguments are drawn at the start, the call is the
   only step. *)

Pending(name, arg) == [f |-> name, x |-> arg, done |-> FALSE, out |-> "none"]

vm_vars ==
    <<flags, stack, op_count, pc, err, op, stack0, pushes, sig_blob_indices,
      sig_ok, parsed, examined, inner>>

Return(name, result) ==
    /\ call.f = name
    /\ ~call.done
    /\ call' = [call EXCEPT !.done = TRUE, !.out = result]
    /\ UNCHANGED vm_vars

Call_check_valid_signature ==
    /\ call.f = "check_valid_signature"
    /\ Return("check_valid_signature", check_valid_signature(call.x))

Call_check_low_der_signature ==
    /\ call.f = "check_low_der_signature"
    /\ Return("check_low_der_signature",
              IF check_low_der_signature(call.x) THEN "ok" ELSE "SIG_HIGH_S")

Call_check_defined_hashtype_signature ==
    /\ call.f = "check_defined_hashtype_signature"
    /\ Return("check_defined_hashtype_signature",
              IF check_defined_hashtype_signature(call.x) THEN "ok"
              ELSE "SIG_HASHTYPE")

Call_check_public_key_encoding ==
    /\ call.f = "check_public_key_encoding"
    /\ Return("check_public_key_encoding",
              IF check_public_key_encoding(call.x) THEN "ok" ELSE "PUBKEYTYPE")

Call_parse_signature_blob ==
    /\ call.f = "parse_signature_blob"
    /\ Return("parse_signature_blob", parse_signature_blob_run(call.x, flags))

InitValidators ==
    /\ stack = Base
    /\ op_count = 0
    /\ pc = "idle"
    /\ err = "none"
    /\ op = "none"
    /\ stack0 = <<>>
    /\ pushes = 0
    /\ sig_blob_indices = <<>>
    /\ sig_ok = "unset"
    /\ parsed = 0
    /\ examined = 0
    /\ inner = NoInner
    /\ \/ /\ flags = {}
          /\ \/ call \in {Pending("check_valid_signature", x) : x \in DerInputs}
             \/ \E sig \in ShortSigs :
                    \E i \in 1..Len(sig), b \in PatchBytes :
                        call = Pending("check_valid_signature", Patched(sig, i, b))
             \/ call \in {Pending("check_low_der_signature", x) : x \in LowSInputs}
             \/ call \in {Pending("check_defined_hashtype_signature", x) :
                             x \in HashtypeInputs}
             \/ call \in {Pending("check_public_key_encoding", x) : x \in KeyInputs}
       \/ /\ flags \in SUBSET AllFlags
          /\ call \in {Pending("parse_signature_blob", x) : x \in ParseInputs}

NextValidators ==
    \/ Call_check_valid_signature
    \/ Call_check_low_der_signature
    \/ Call_check_defined_hashtype_signature
    \/ Call_check_public_key_encoding
    \/ Call_parse_signature_blob

SpecValidators == InitValidators /\ [][NextValidators]_vars

-----------------------------------------------------------------------------
(* Reading the operands back from the stack the opcode was entered with *)

Done(name) == pc = "done" /\ op = name

PushedTrue == err = "none" /\ stack # <<>> /\ stack[1] = VM_TRUE
PushedFalse == err = "none" /\ stack # <<>> /\ stack[1] = VM_FALSE

\* CHECKSIG's operands.
In_pair_blob == stack0[1]
In_sig_blob == stack0[2]

\* CHECKMULTISIG's operands; the later ones are read only when the earlier
\* counts are in range.
In_key_count == stack0[1].v
KeyCountOk == In_key_count >= 0 /\ In_key_count <= MaxKeyCount
In_keys == SubSeq(stack0, 2, 1 + In_key_count)
In_sig_count == stack0[2 + In_key_count].v
SigCountOk == KeyCountOk /\ In_sig_count >= 0 /\ In_sig_count <= In_key_count
In_sigs == SubSeq(stack0, 3 + In_key_count, 2 + In_key_count + In_sig_count)
In_dummy == stack0[3 + In_key_count + In_sig_count]
DummyOk == SigCountOk /\ ~(VERIFY_NULLDUMMY \in flags /\ ~In_dummy.empty)
\* The stack below CHECKMULTISIG's operands.
BelowMultisig == Drop(stack0, 3 + In_key_count + In_sig_count)

\* The key at position p (from 1) is one the signature verifies for.
Matches(sig, key) ==
    LET pp == sec_to_public_pair(key, VERIFY_STRICTENC \in flags)
    IN  pp # 0 /\ pp \in sig.cands

StrictlyIncreasingSeq(f) == \A i, j \in DOMAIN f : i < j => f[i] < f[j]

\* The positions (from 1) of the listed keys a signature verifies for.
PositionsOf(sig) == {k \in DOMAIN In_keys : Matches(sig, In_keys[k])}

-----------------------------------------------------------------------------
(* C1..C4: the multisig matcher *)

\* C1: CHECKMULTISIG pushes true only if its signatures are matched by
\* pairwise distinct key positions in increasing order: there are positions
\* p1 < p2 < ... < pM of the key list such that signature i verifies for the
\* key at position pi.  No key is used by two signatures.
C1_TrueOnlyWithDistinctKeys ==
    (Done("CHECKMULTISIG") /\ PushedTrue) =>
        \E f \in [1..In_sig_count -> 1..In_key_count] :
            /\ StrictlyIncreasingSeq(f)
            /\ \A i \in 1..In_sig_count : Matches(In_sigs[i], In_keys[f[i]])

\* The inputs C2 and C3 speak of: the matcher is reached, the keys are
\* distinct and pass the key checks the flags turn on, every signature parses
\* under the flags and verifies for exactly one listed key.
KeysDistinctWellFormed ==
    /\ \A k \in DOMAIN In_keys :
           /\ check_public_key_encoding(In_keys[k])
           /\ In_keys[k].pt # 0
           /\ VERIFY_WITNESS_PUBKEYTYPE \in flags
                  => witness_pubkeytype(In_keys[k]) = "ok"
    /\ \A j, k \in DOMAIN In_keys : j # k => In_keys[j].pt # In_keys[k].pt

EachSigByOneListedKey ==
    \A i \in DOMAIN In_sigs :
        /\ parse_signature_blob(In_sigs[i], flags) = "ok"
        /\ Cardinality(PositionsOf(In_sigs[i])) = 1

\* The position of the one listed key signature i verifies for.
SignerPos(i) == CHOOSE k \in PositionsOf(In_sigs[i]) : TRUE

SignersInKeyOrder ==
    \A i \in 1..(In_sig_count - 1) : SignerPos(i) < SignerPos(i + 1)

\* C2: with distinct keys and signatures each valid for exactly one listed
\* key, CHECKMULTISIG does not push true when some signature's key is at a
\* position not after the key of the signature before it.
C2_OutOfOrderNeverTrue ==
    (/\ Done("CHECKMULTISIG")
     /\ DummyOk
     /\ KeysDistinctWellFormed
     /\ EachSigByOneListedKey
     /\ ~SignersInKeyOrder) => ~PushedTrue

\* C3: with distinct well-formed keys and signatures each made by one listed
\* key, supplied in the order of their keys, sig_blob_matches returns a
\* strictly increasing list of as many indices as there are signatures, none
\* of them -1, and CHECKMULTISIG pushes true.
C3_Case ==
    /\ Done("CHECKMULTISIG")
    /\ DummyOk
    /\ KeysDistinctWellFormed
    /\ EachSigByOneListedKey
    /\ SignersInKeyOrder

C3_InOrderIsTrue ==
    C3_Case =>
        /\ PushedTrue
        /\ Len(sig_blob_indices) = In_sig_count
        /\ -1 \notin Range(sig_blob_indices)
        /\ StrictlyIncreasingSeq(sig_blob_indices)

\* Two signatures by the first and the last of three keys are accepted.
C3_Witness ==
    /\ C3_Case
    /\ In_key_count = 3
    /\ In_sig_count = 2
    /\ SignerPos(1) = 1
    /\ SignerPos(2) = 3
    /\ PushedTrue

\* C4: every entry of the list sig_blob_matches returns is -1 or the index
\* (from 0) of a key of the list that the entry's signature verifies for.
C4_EntriesIndexMatchingKeys ==
    (Done("CHECKMULTISIG") /\ sig_ok # "unset") =>
        \A i \in DOMAIN sig_blob_indices :
            \/ sig_blob_indices[i] = -1
            \/ /\ 0 <= sig_blob_indices[i]
               /\ sig_blob_indices[i] < In_key_count
               /\ Matches(In_sigs[i], In_keys[sig_blob_indices[i] + 1])

-----------------------------------------------------------------------------
(* C5, C6: NULLFAIL *)

\* C5: with NULLFAIL set, when CHECKMULTISIG reaches its result stage with a
\* failing match, it raises NULLFAIL and pushes nothing if some popped
\* signature blob is non-empty, whether or not the matcher parsed it, and it
\* pushes false if all of them are empty.
C5_NullfailMultisig ==
    (/\ Done("CHECKMULTISIG")
     /\ VERIFY_NULLFAIL \in flags
     /\ sig_ok = "false") =>
        IF \E i \in DOMAIN In_sigs : ~In_sigs[i].empty
        THEN err = "NULLFAIL" /\ pushes = 0 /\ stack = BelowMultisig
        ELSE PushedFalse /\ pushes = 1 /\ Tail(stack) = BelowMultisig

\* The matcher stopped at an empty first blob and never parsed the non-empty
\* second one; NULLFAIL is raised all the same.
C5_Witness ==
    /\ Done("CHECKMULTISIG")
    /\ VERIFY_NULLFAIL \in flags
    /\ sig_ok = "false"
    /\ In_sig_count = 2
    /\ In_sigs[1].empty
    /\ ~In_sigs[2].empty
    /\ parsed = 1
    /\ err = "NULLFAIL"

\* C6: with NULLFAIL set, CHECKSIG given a non-empty signature blob either
\* pushes true or ends in a hard failure; it never pushes false.
C6_NullfailChecksigNeverSoft ==
    (/\ Done("CHECKSIG")
     /\ VERIFY_NULLFAIL \in flags
     /\ ~In_sig_blob.empty) => ~PushedFalse

-----------------------------------------------------------------------------
(* C7: the VERIFY opcodes *)

VerifyDone == Done("CHECKSIGVERIFY") \/ Done("CHECKMULTISIGVERIFY")

\* The stack below the operands of the opcode that ran.
BelowOperands ==
    IF op \in {"CHECKSIG", "CHECKSIGVERIFY"} THEN Drop(stack0, 2)
    ELSE BelowMultisig

\* C7: a VERIFY opcode raises VERIFY exactly when the opcode it wraps returned
\* having pushed false; when that opcode pushed true it returns with the
\* boolean popped, the stack being the entry stack less the operands; when
\* that opcode raised, the same error code comes out.
C7_VerifyWrappers ==
    VerifyDone =>
        /\ err = "VERIFY" <=> (inner.err = "none" /\ inner.pushed = "false")
        /\ inner.pushed = "true" => (err = "none" /\ stack = BelowOperands)
        /\ inner.err # "none" => err = inner.err

C7_Witness ==
    /\ Done("CHECKMULTISIGVERIFY")
    /\ inner.pushed = "true"
    /\ In_sig_count = 2
    /\ err = "none"
    /\ stack = Base

-----------------------------------------------------------------------------
(* C8: one push or one raise *)

\* C8: CHECKSIG and CHECKMULTISIG end either returning with exactly one
\* boolean pushed on the stack left below the operands, or raising with
\* nothing pushed.
C8_PushXorRaise ==
    (Done("CHECKSIG") \/ Done("CHECKMULTISIG")) =>
        \/ /\ err = "none"
           /\ pushes = 1
           /\ stack # <<>>
           /\ stack[1] \in {VM_TRUE, VM_FALSE}
           /\ Tail(stack) = BelowOperands
        \/ /\ err # "none"
           /\ pushes = 0

\* CHECKSIG catches the decode error of a non-empty blob and pushes false.
C8_Witness ==
    /\ Done("CHECKSIG")
    /\ ~In_sig_blob.empty
    /\ ~In_sig_blob.dec
    /\ PushedFalse
    /\ pushes = 1

-----------------------------------------------------------------------------
(* C9: CHECKSIG and malformed encodings *)

DerFlagSet == flags \cap {VERIFY_DERSIG, VERIFY_LOW_S, VERIFY_STRICTENC} # {}

NoStrictFlag ==
    flags \cap {VERIFY_STRICTENC, VERIFY_DERSIG, VERIFY_LOW_S,
                VERIFY_WITNESS_PUBKEYTYPE, VERIFY_NULLFAIL} = {}

BadDer == ~In_sig_blob.empty /\ ~In_sig_blob.der

\* The key blob passes the key checks CHECKSIG makes under the flags.
KeyChecksPass ==
    /\ VERIFY_STRICTENC \in flags => check_public_key_encoding(In_pair_blob)
    /\ VERIFY_WITNESS_PUBKEYTYPE \in flags
           => witness_pubkeytype(In_pair_blob) = "ok"

\* Without any of the five flags CHECKSIG raises nothing, and pushes false
\* when the signature or the key does not decode.
LenientNeverRaises ==
    (Done("CHECKSIG") /\ NoStrictFlag) =>
        /\ err = "none"
        /\ (In_sig_blob.empty \/ ~In_sig_blob.dec \/ In_pair_blob.pt = 0)
               => PushedFalse

\* C9 as stated: under DERSIG, LOW_S or STRICTENC a non-empty blob failing
\* strict DER validation makes CHECKSIG raise SIG_DER with nothing pushed;
\* without the five flags CHECKSIG never raises.
C9_AsStated ==
    /\ (Done("CHECKSIG") /\ DerFlagSet /\ BadDer)
           => (err = "SIG_DER" /\ pushes = 0)
    /\ LenientNeverRaises

\* C9 amended: under DERSIG, LOW_S or STRICTENC a non-empty blob failing
\* strict DER validation makes CHECKSIG raise with nothing pushed: SIG_DER
\* when the key blob passes the key checks the flags turn on, and the key
\* check's own error when it does not; without the five flags CHECKSIG never
\* raises and pushes false when the signature or the key does not decode.
C9_Amended ==
    /\ (Done("CHECKSIG") /\ DerFlagSet /\ BadDer) =>
           /\ pushes = 0
           /\ KeyChecksPass => err = "SIG_DER"
           /\ ~KeyChecksPass => err \in {"PUBKEYTYPE", "WITNESS_PUBKEYTYPE", Uncaught}
    /\ LenientNeverRaises

\* LOW_S alone turns the DER check on.
C9_Witness ==
    /\ Done("CHECKSIG")
    /\ flags = {VERIFY_LOW_S}
    /\ BadDer
    /\ In_sig_blob.dec
    /\ err = "SIG_DER"

-----------------------------------------------------------------------------
(* C10: CHECKMULTISIG validates its operands in pop order *)

MultisigDone == Done("CHECKMULTISIG") \/ Done("CHECKMULTISIGVERIFY")

NothingMatched == parsed = 0 /\ examined = 0 /\ pushes = 0

\* C10: CHECKMULTISIG raises PUBKEY_COUNT exactly when the key count is
\* outside 0..20, with only the count popped; else SIG_COUNT exactly when the
\* signature count is outside 0..key_count, with the key count, the keys and
\* the signature count popped; else SIG_NULLDUMMY exactly when NULLDUMMY is
\* set and the dummy is non-empty.  In each case no signature has been parsed
\* and no key examined.
C10_OperandChecksFirst ==
    MultisigDone =>
        /\ err = "PUBKEY_COUNT" <=> ~KeyCountOk
        /\ ~KeyCountOk => (stack = Drop(stack0, 1) /\ NothingMatched)
        /\ KeyCountOk => (err = "SIG_COUNT" <=> ~SigCountOk)
        /\ (KeyCountOk /\ ~SigCountOk)
               => (stack = Drop(stack0, In_key_count + 2) /\ NothingMatched)
        /\ SigCountOk => (err = "SIG_NULLDUMMY" <=> ~DummyOk)
        /\ (SigCountOk /\ ~DummyOk) => (stack = BelowMultisig /\ NothingMatched)

\* A non-empty dummy under NULLDUMMY wins over a malformed key and a garbage
\* signature that the other flags would reject.
C10_Witness ==
    /\ Done("CHECKMULTISIG")
    /\ {VERIFY_NULLDUMMY, VERIFY_DERSIG, VERIFY_STRICTENC, VERIFY_NULLFAIL}
           \subseteq flags
    /\ SigCountOk
    /\ In_sig_count = 1
    /\ ~In_sigs[1].empty
    /\ ~In_sigs[1].der
    /\ ~check_public_key_encoding(In_keys[1])
    /\ err = "SIG_NULLDUMMY"
    /\ NothingMatched

-----------------------------------------------------------------------------
(* The validators called on their own *)

Returned(name) == call.f = name /\ call.done

\* The hash type bytes the claim lists.
DefinedHashtypes == {1, 2, 3, 129, 130, 131}

\* C11: parse_signature_blob raises SIG_DER only under STRICTENC, DERSIG or
\* LOW_S, SIG_HASHTYPE only under STRICTENC and SIG_HIGH_S only under LOW_S;
\* with none of the three flags a non-empty blob raises no script error; each
\* check is called only under its flags; and whenever the blob is non-empty
\* and passes the checks its flags switch on, the DER decode is attempted.
C11_ChecksOnlyUnderTheirFlags ==
    Returned("parse_signature_blob") =>
        LET sig_blob == call.x
            r == call.out
            made == Range(r.calls)
            der_on == flags \cap {VERIFY_STRICTENC, VERIFY_DERSIG, VERIFY_LOW_S} # {}
        IN  /\ r.result = "SIG_DER" => der_on
            /\ r.result = "SIG_HASHTYPE" => VERIFY_STRICTENC \in flags
            /\ r.result = "SIG_HIGH_S" => VERIFY_LOW_S \in flags
            /\ "check_valid_signature" \in made => der_on
            /\ "check_defined_hashtype_signature" \in made => VERIFY_STRICTENC \in flags
            /\ "check_low_der_signature" \in made => VERIFY_LOW_S \in flags
            /\ ~der_on /\ ~sig_blob.empty => r.result \notin ScriptErrors
            /\ (/\ ~sig_blob.empty
                /\ der_on => sig_blob.der
                /\ VERIFY_STRICTENC \in flags => sig_blob.last \in DefinedHashtypes)
               => "sigdecode_der" \in made

\* A blob that is neither strict DER nor of a defined hash type is decoded
\* and returned when none of the three flags is set.
C11_Witness ==
    /\ Returned("parse_signature_blob")
    /\ flags \cap {VERIFY_STRICTENC, VERIFY_DERSIG, VERIFY_LOW_S} = {}
    /\ ~call.x.empty
    /\ ~call.x.der
    /\ call.x.last \notin DefinedHashtypes
    /\ ~call.x.lows
    /\ call.out.result = "ok"
    /\ call.out.calls = <<"sigdecode_der">>

\* The conditions of the claim, on the bytes sig[1..n] (byte i is sig[i + 1]).
StrictDer(sig) ==
    LET n == Len(sig)
    IN  /\ n >= 9 /\ n <= 73
        /\ sig[1] = 48
        /\ sig[2] = n - 3
        /\ LET r_len == sig[4]
           IN  /\ 5 + r_len < n
               /\ LET s_len == sig[5 + r_len + 1]
                  IN  /\ r_len + s_len + 7 = n
                      /\ sig[3] = 2
                      /\ r_len # 0
                      /\ sig[5] < 128
                      /\ ~(r_len > 1 /\ sig[5] = 0 /\ sig[6] < 128)
                      /\ sig[r_len + 5] = 2
                      /\ s_len # 0
                      /\ sig[r_len + 7] < 128
                      /\ ~(s_len > 1 /\ sig[r_len + 7] = 0 /\ sig[r_len + 8] < 128)

\* C12: check_valid_signature accepts a byte sequence exactly when it
\* satisfies the length, header, R and S conditions of strict DER, and
\* otherwise raises SIG_DER; every length outside 9..73 is rejected.
C12_AcceptsExactlyStrictDer ==
    Returned("check_valid_signature") =>
        /\ call.out.err = "ok" <=> StrictDer(call.x)
        /\ ~StrictDer(call.x) => call.out.err = "SIG_DER"
        /\ Len(call.x) \notin 9..73 => call.out.err = "SIG_DER"

\* A frame whose R carries a leading zero it does not need is rejected.
C12_Witness ==
    /\ Returned("check_valid_signature")
    /\ Len(call.x) = 10
    /\ call.x[4] = 2
    /\ call.x[5] = 0
    /\ call.x[6] = 1
    /\ call.x[2] = 7
    /\ call.x[9] = 1
    /\ call.out.err = "SIG_DER"

\* C13: check_low_der_signature accepts (r, s) exactly when s <= n - s, n the
\* order of the generator, and otherwise raises SIG_HIGH_S; so every s above
\* n / 2 is rejected while n - s is accepted.
C13_LowSAgainstOrder ==
    Returned("check_low_der_signature") =>
        LET s == call.x[2]
        IN  /\ call.out = "ok" <=> s <= CurveN - s
            /\ call.out # "ok" => call.out = "SIG_HIGH_S"
            /\ 2 * s > CurveN => call.out = "SIG_HIGH_S"

\* C14: check_defined_hashtype_signature accepts a non-empty blob exactly when
\* its final byte with bit 0x80 cleared is 1, 2 or 3, that is for the six
\* bytes 0x01, 0x02, 0x03, 0x81, 0x82, 0x83; every other byte is SIG_HASHTYPE.
C14_SixHashtypeBytes ==
    Returned("check_defined_hashtype_signature") =>
        LET b == call.x.last
        IN  /\ call.out = "ok" <=> b \in DefinedHashtypes
            /\ call.out = "ok" <=> (b % 128) \in {1, 2, 3}
            /\ b \notin DefinedHashtypes => call.out = "SIG_HASHTYPE"

\* SIGHASH_SINGLE | SIGHASH_ANYONECANPAY is accepted.
C14_Witness ==
    /\ Returned("check_defined_hashtype_signature")
    /\ call.x.last = 131
    /\ call.out = "ok"

\* C15: check_public_key_encoding accepts exactly 65 bytes that start with
\* 0x04 and 33 bytes that start with 0x02 or 0x03; any other length (0
\* included) and first byte is PUBKEYTYPE.
C15_ThreeKeyShapes ==
    Returned("check_public_key_encoding") =>
        LET lb == call.x.len
            fb == call.x.fb
            shape == \/ lb = 65 /\ fb = 4
                     \/ lb = 33 /\ fb = 2
                     \/ lb = 33 /\ fb = 3
        IN  /\ call.out = "ok" <=> shape
            /\ ~shape => call.out = "PUBKEYTYPE"

\* 65 bytes that start with a compressed key's first byte are rejected.
C15_Witness ==
    /\ Returned("check_public_key_encoding")
    /\ call.x.len = 65
    /\ call.x.fb = 2
    /\ call.out = "PUBKEYTYPE"

-----------------------------------------------------------------------------
(* C16..C19: the opcodes again *)

\* sig_blob_matches returned a list to CHECKMULTISIG.
MatcherReturned == MultisigDone /\ sig_ok # "unset"

\* C16: once sig_blob_matches has recorded a -1 it parses no further
\* signature and examines no further key: the -1 is the last entry, the only
\* one, and there are as many entries as blobs parsed.  When the first blob is
\* empty nothing but it is parsed, no key is examined, and no later blob
\* raises SIG_DER, SIG_HASHTYPE or SIG_HIGH_S.
C16_NothingAfterMinusOne ==
    /\ (MatcherReturned /\ -1 \in Range(sig_blob_indices)) =>
           /\ sig_blob_indices[Len(sig_blob_indices)] = -1
           /\ \A i \in 1..(Len(sig_blob_indices) - 1) : sig_blob_indices[i] # -1
           /\ parsed = Len(sig_blob_indices)
    /\ (MultisigDone /\ DummyOk /\ In_sig_count >= 1 /\ In_sigs[1].empty) =>
           /\ sig_ok # "unset"
           /\ sig_blob_indices = <<-1>>
           /\ parsed = 1
           /\ examined = 0
           /\ err \notin {"SIG_DER", "SIG_HASHTYPE", "SIG_HIGH_S"}

\* Under DERSIG an empty first blob keeps a second blob that is not strict
\* DER from being parsed: false is pushed.
C16_Witness ==
    /\ Done("CHECKMULTISIG")
    /\ VERIFY_DERSIG \in flags
    /\ DummyOk
    /\ In_sig_count = 2
    /\ In_sigs[1].empty
    /\ ~In_sigs[2].empty
    /\ ~In_sigs[2].der
    /\ sig_blob_indices = <<-1>>
    /\ parsed = 1
    /\ PushedFalse

\* C17: a list sig_blob_matches returns without a -1 in it is strictly
\* increasing, so a list with no -1 and one entry per signature always makes
\* sig_ok true.
C17_NoMinusOneIsIncreasing ==
    (MatcherReturned /\ -1 \notin Range(sig_blob_indices)) =>
        /\ StrictlyIncreasingSeq(sig_blob_indices)
        /\ Len(sig_blob_indices) = In_sig_count => sig_ok = "true"

\* Two signatures or more, all matched.
C17_Witness ==
    /\ MatcherReturned
    /\ In_sig_count >= 2
    /\ Len(sig_blob_indices) = In_sig_count
    /\ -1 \notin Range(sig_blob_indices)
    /\ sig_ok = "true"

\* C18: the hard failure CHECKSIG reports is the first of: key encoding under
\* STRICTENC (PUBKEYTYPE), compressed key under WITNESS_PUBKEYTYPE
\* (WITNESS_PUBKEYTYPE), strict DER (SIG_DER), hash type (SIG_HASHTYPE), low S
\* (SIG_HIGH_S); a badly encoded key under STRICTENC raises PUBKEYTYPE
\* whatever the signature blob is.
C18_FirstFailureInFixedOrder ==
    Done("CHECKSIG") =>
        LET key == In_pair_blob
            sig == In_sig_blob
            key_bad ==
                /\ VERIFY_STRICTENC \in flags
                /\ ~(\/ key.len = 65 /\ key.fb = 4
                     \/ key.len = 33 /\ key.fb \in {2, 3})
            witness_bad ==
                /\ VERIFY_WITNESS_PUBKEYTYPE \in flags
                /\ ~(key.len = 33 /\ key.fb \in {2, 3})
            der_bad == DerFlagSet /\ ~sig.empty /\ ~sig.der
            hashtype_bad ==
                /\ VERIFY_STRICTENC \in flags
                /\ ~sig.empty
                /\ sig.last \notin DefinedHashtypes
            high_s ==
                VERIFY_LOW_S \in flags /\ ~sig.empty /\ sig.dec /\ ~sig.lows
        IN  IF key_bad THEN err = "PUBKEYTYPE"
            ELSE IF witness_bad THEN err = "WITNESS_PUBKEYTYPE"
            ELSE IF der_bad THEN err = "SIG_DER"
            ELSE IF hashtype_bad THEN err = "SIG_HASHTYPE"
            ELSE IF high_s THEN err = "SIG_HIGH_S"
            ELSE err \notin {"PUBKEYTYPE", "WITNESS_PUBKEYTYPE", "SIG_DER",
                             "SIG_HASHTYPE", "SIG_HIGH_S"}

\* C19: a CHECKMULTISIG run whose key count is in 0..20 leaves op_count
\* larger by the key count, whatever the run ends in; a CHECKSIG run leaves
\* op_count as it was.
C19_OpCountGrowsByKeyCount ==
    [][(pc = "ready" /\ pc' = "done") =>
          /\ (/\ op' \in {"CHECKMULTISIG", "CHECKMULTISIGVERIFY"}
              /\ stack[1].v >= 0
              /\ stack[1].v <= 20)
                 => op_count' = op_count + stack[1].v
          /\ op' = "CHECKSIG" => op_count' = op_count]_vars

\* Two keys counted on top of a counter of 1, in a run that ends in NULLFAIL
\* after one key was examined.
C19_Witness ==
    /\ Done("CHECKMULTISIG")
    /\ In_key_count = 2
    /\ op_count = 3
    /\ err = "NULLFAIL"
    /\ examined = 1

\* The indices the claim lists, for a sequence that has a byte 3.
ListedReads(sig) ==
    LET r_len == sig[4]
    IN  {0, 1, 2, 3, 4, 5, 5 + r_len, r_len + 4, r_len + 6, r_len + 7}

\* C20: the two passes of check_valid_signature read only listed indices,
\* each below the length of the sequence, and the validator ends only by
\* accepting or by raising SIG_DER.
C20_ReadsStayInside ==
    Returned("check_valid_signature") =>
        LET sig == call.x
            r == call.out
        IN  /\ r.err \in {"ok", "SIG_DER"}
            /\ \A i \in r.reads : i >= 0 /\ i < Len(sig)
            /\ Len(sig) < 4 => r.reads = {}
            /\ Len(sig) >= 4 => r.reads \subseteq ListedReads(sig)

\* An accepted frame of which the last listed index, r_len + 7, was read.
C20_Witness ==
    /\ Returned("check_valid_signature")
    /\ call.out.err = "ok"
    /\ Len(call.x) >= 4
    /\ call.x[4] + 7 \in call.out.reads
    /\ 5 \in call.out.reads

====
